---------------------------- MODULE Spec2Model ----------------------------
(***************************************************************************)
(* A model of src/pdf_to_text.py: the filename identifier extractor, the   *)
(* equation isolator, the readability calculator and the pipeline driver.  *)
(*                                                                         *)
(* Text is a sequence of characters, each a string: a printable ASCII      *)
(* character, newline, tab, carriage return and form feed are written as   *)
(* themselves ("a", "\n"), every other character, and the grave accent,    *)
(* by its code point ("U+000B", "U+0060", "U+00E9", "U+0663").  The        *)
(* character classes are those of a str pattern of Python's re module.     *)
(***************************************************************************)
EXTENDS Integers, Sequences, FiniteSets, TLC

VARIABLES
    eq_pc, eq_in, eq_out, eq_again,   \* preserve_equations: input, result, result on its own output
    id_pc, id_in, id_out,             \* extract_arxiv_id: filename, result
    rd_pc, rd_in, rd_out,             \* calculate_readability: text, result
    listing,        \* process_pdfs: what os.listdir(PDF_DIR) returned
    idx,            \* the position of the loop in the listing
    stage,          \* the statement the loop is at
    cur,            \* the local variables of the loop body
    metadata,       \* the list of rows
    written,        \* the files written so far: path -> content
    table,          \* the DataFrame written to METADATA_PATH
    aborted,        \* an exception left process_pdfs
    clock_year,     \* datetime.now().year
    outcome,        \* history: per file "clean", "skipped" or the stage that raised
    lookup,         \* history: per file how the catalog lookup ended
    row_file        \* history: per row the position of its file in the listing

eq_vars == <<eq_pc, eq_in, eq_out, eq_again>>
id_vars == <<id_pc, id_in, id_out>>
rd_vars == <<rd_pc, rd_in, rd_out>>
drv_vars == <<listing, idx, stage, cur, metadata, written, table, aborted, clock_year,
              outcome, lookup, row_file>>
vars == <<eq_vars, id_vars, rd_vars, drv_vars>>

(***************************************************************************)
(* Characters and character classes                                        *)
(***************************************************************************)
\* the value of a hexadecimal digit
HexDigit ==
    [h \in {"0", "1", "2", "3", "4", "5", "6", "7", "8", "9", "A", "B", "C", "D", "E", "F"} |->
        CASE h = "0" -> 0 [] h = "1" -> 1 [] h = "2" -> 2 [] h = "3" -> 3
          [] h = "4" -> 4 [] h = "5" -> 5 [] h = "6" -> 6 [] h = "7" -> 7
          [] h = "8" -> 8 [] h = "9" -> 9 [] h = "A" -> 10 [] h = "B" -> 11
          [] h = "C" -> 12 [] h = "D" -> 13 [] h = "E" -> 14 [] h = "F" -> 15]

\* the number written by the n hexadecimal digits of s that start at position from
RECURSIVE HexValue(_, _, _)
HexValue(s, from, n) ==
    IF n = 0 THEN 0
    ELSE 16 * HexValue(s, from, n - 1) + HexDigit[SubSeq(s, from + n - 1, from + n - 1)]

\* ord(c) of a character written by its code point, "U+03C9"
CodePoint(c) == HexValue(c, 3, Len(c) - 2)

\* the ranges <<first, last>> of code points of a table that writes each range as the
\* six hexadecimal digits of its first and the six of its last code point
Ranges(tab) ==
    {<<HexValue(tab, 12 * k + 1, 6), HexValue(tab, 12 * k + 7, 6)>> :
        k \in 0..(Len(tab) \div 12 - 1)}

\* the characters written by code point whose code point is in one of the ranges
InRanges(ranges) ==
    {c \in STRING :
        /\ Len(c) > 1
        /\ LET n == CodePoint(c) IN \E r \in ranges : r[1] <= n /\ n <= r[2]}

\* [0-9]
AsciiDigit == {"0", "1", "2", "3", "4", "5", "6", "7", "8", "9"}
\* the decimal digits (category Nd) outside ASCII
UnicodeDigitTable ==
    "0006600006690006F00006F90007C00007C900096600096F0009E60009EF"
    \o "000A66000A6F000AE6000AEF000B66000B6F000BE6000BEF000C66000C6F"
    \o "000CE6000CEF000D66000D6F000DE6000DEF000E50000E59000ED0000ED9"
    \o "000F20000F290010400010490010900010990017E00017E9001810001819"
    \o "00194600194F0019D00019D9001A80001A89001A90001A99001B50001B59"
    \o "001BB0001BB9001C40001C49001C50001C5900A62000A62900A8D000A8D9"
    \o "00A90000A90900A9D000A9D900A9F000A9F900AA5000AA5900ABF000ABF9"
    \o "00FF1000FF190104A00104A9010D30010D3901106601106F0110F00110F9"
    \o "01113601113F0111D00111D90112F00112F90114500114590114D00114D9"
    \o "0116500116590116C00116C90117300117390118E00118E9011950011959"
    \o "011C50011C59011D50011D59011DA0011DA9016A60016A69016AC0016AC9"
    \o "016B50016B5901D7CE01D7FF01E14001E14901E2F001E2F901E95001E959"
    \o "01FBF001FBF9"
UnicodeDigitRanges == Ranges(UnicodeDigitTable)
\* \d of a str pattern: every decimal digit
Digit == AsciiDigit \cup InRanges(UnicodeDigitRanges)
\* [A-Z]
Upper == {"A", "B", "C", "D", "E", "F", "G", "H", "I", "J", "K", "L", "M",
          "N", "O", "P", "Q", "R", "S", "T", "U", "V", "W", "X", "Y", "Z"}
Lower == {"a", "b", "c", "d", "e", "f", "g", "h", "i", "j", "k", "l", "m",
          "n", "o", "p", "q", "r", "s", "t", "u", "v", "w", "x", "y", "z"}
\* the alphanumeric characters (str.isalnum()) outside ASCII
UnicodeAlnumTable ==
    "0000AA0000AA0000B20000B30000B50000B50000B90000BA0000BC0000BE"
    \o "0000C00000D60000D80000F60000F80002C10002C60002D10002E00002E4"
    \o "0002EC0002EC0002EE0002EE00037000037400037600037700037A00037D"
    \o "00037F00037F00038600038600038800038A00038C00038C00038E0003A1"
    \o "0003A30003F50003F700048100048A00052F000531000556000559000559"
    \o "0005600005880005D00005EA0005EF0005F200062000064A000660000669"
    \o "00066E00066F0006710006D30006D50006D50006E50006E60006EE0006FC"
    \o "0006FF0006FF00071000071000071200072F00074D0007A50007B10007B1"
    \o "0007C00007EA0007F40007F50007FA0007FA00080000081500081A00081A"
    \o "00082400082400082800082800084000085800086000086A000870000887"
    \o "00088900088E0008A00008C900090400093900093D00093D000950000950"
    \o "00095800096100096600096F00097100098000098500098C00098F000990"
    \o "0009930009A80009AA0009B00009B20009B20009B60009B90009BD0009BD"
    \o "0009CE0009CE0009DC0009DD0009DF0009E10009E60009F10009F40009F9"
    \o "0009FC0009FC000A05000A0A000A0F000A10000A13000A28000A2A000A30"
    \o "000A32000A33000A35000A36000A38000A39000A59000A5C000A5E000A5E"
    \o "000A66000A6F000A72000A74000A85000A8D000A8F000A91000A93000AA8"
    \o "000AAA000AB0000AB2000AB3000AB5000AB9000ABD000ABD000AD0000AD0"
    \o "000AE0000AE1000AE6000AEF000AF9000AF9000B05000B0C000B0F000B10"
    \o "000B13000B28000B2A000B30000B32000B33000B35000B39000B3D000B3D"
    \o "000B5C000B5D000B5F000B61000B66000B6F000B71000B77000B83000B83"
    \o "000B85000B8A000B8E000B90000B92000B95000B99000B9A000B9C000B9C"
    \o "000B9E000B9F000BA3000BA4000BA8000BAA000BAE000BB9000BD0000BD0"
    \o "000BE6000BF2000C05000C0C000C0E000C10000C12000C28000C2A000C39"
    \o "000C3D000C3D000C58000C5A000C5D000C5D000C60000C61000C66000C6F"
    \o "000C78000C7E000C80000C80000C85000C8C000C8E000C90000C92000CA8"
    \o "000CAA000CB3000CB5000CB9000CBD000CBD000CDD000CDE000CE0000CE1"
    \o "000CE6000CEF000CF1000CF2000D04000D0C000D0E000D10000D12000D3A"
    \o "000D3D000D3D000D4E000D4E000D54000D56000D58000D61000D66000D78"
    \o "000D7A000D7F000D85000D96000D9A000DB1000DB3000DBB000DBD000DBD"
    \o "000DC0000DC6000DE6000DEF000E01000E30000E32000E33000E40000E46"
    \o "000E50000E59000E81000E82000E84000E84000E86000E8A000E8C000EA3"
    \o "000EA5000EA5000EA7000EB0000EB2000EB3000EBD000EBD000EC0000EC4"
    \o "000EC6000EC6000ED0000ED9000EDC000EDF000F00000F00000F20000F33"
    \o "000F40000F47000F49000F6C000F88000F8C00100000102A00103F001049"
    \o "00105000105500105A00105D00106100106100106500106600106E001070"
    \o "00107500108100108E00108E0010900010990010A00010C50010C70010C7"
    \o "0010CD0010CD0010D00010FA0010FC00124800124A00124D001250001256"
    \o "00125800125800125A00125D00126000128800128A00128D0012900012B0"
    \o "0012B20012B50012B80012BE0012C00012C00012C20012C50012C80012D6"
    \o "0012D800131000131200131500131800135A00136900137C00138000138F"
    \o "0013A00013F50013F80013FD00140100166C00166F00167F00168100169A"
    \o "0016A00016EA0016EE0016F800170000171100171F001731001740001751"
    \o "00176000176C00176E0017700017800017B30017D70017D70017DC0017DC"
    \o "0017E00017E90017F00017F9001810001819001820001878001880001884"
    \o "0018870018A80018AA0018AA0018B00018F500190000191E00194600196D"
    \o "0019700019740019800019AB0019B00019C90019D00019DA001A00001A16"
    \o "001A20001A54001A80001A89001A90001A99001AA7001AA7001B05001B33"
    \o "001B45001B4C001B50001B59001B83001BA0001BAE001BE5001C00001C23"
    \o "001C40001C49001C4D001C7D001C80001C88001C90001CBA001CBD001CBF"
    \o "001CE9001CEC001CEE001CF3001CF5001CF6001CFA001CFA001D00001DBF"
    \o "001E00001F15001F18001F1D001F20001F45001F48001F4D001F50001F57"
    \o "001F59001F59001F5B001F5B001F5D001F5D001F5F001F7D001F80001FB4"
    \o "001FB6001FBC001FBE001FBE001FC2001FC4001FC6001FCC001FD0001FD3"
    \o "001FD6001FDB001FE0001FEC001FF2001FF4001FF6001FFC002070002071"
    \o "00207400207900207F00208900209000209C002102002102002107002107"
    \o "00210A00211300211500211500211900211D002124002124002126002126"
    \o "00212800212800212A00212D00212F00213900213C00213F002145002149"
    \o "00214E00214E00215000218900246000249B0024EA0024FF002776002793"
    \o "002C00002CE4002CEB002CEE002CF2002CF3002CFD002CFD002D00002D25"
    \o "002D27002D27002D2D002D2D002D30002D67002D6F002D6F002D80002D96"
    \o "002DA0002DA6002DA8002DAE002DB0002DB6002DB8002DBE002DC0002DC6"
    \o "002DC8002DCE002DD0002DD6002DD8002DDE002E2F002E2F003005003007"
    \o "00302100302900303100303500303800303C00304100309600309D00309F"
    \o "0030A10030FA0030FC0030FF00310500312F00313100318E003192003195"
    \o "0031A00031BF0031F00031FF00322000322900324800324F00325100325F"
    \o "0032800032890032B10032BF003400004DBF004E0000A48C00A4D000A4FD"
    \o "00A50000A60C00A61000A62B00A64000A66E00A67F00A69D00A6A000A6EF"
    \o "00A71700A71F00A72200A78800A78B00A7CA00A7D000A7D100A7D300A7D3"
    \o "00A7D500A7D900A7F200A80100A80300A80500A80700A80A00A80C00A822"
    \o "00A83000A83500A84000A87300A88200A8B300A8D000A8D900A8F200A8F7"
    \o "00A8FB00A8FB00A8FD00A8FE00A90000A92500A93000A94600A96000A97C"
    \o "00A98400A9B200A9CF00A9D900A9E000A9E400A9E600A9FE00AA0000AA28"
    \o "00AA4000AA4200AA4400AA4B00AA5000AA5900AA6000AA7600AA7A00AA7A"
    \o "00AA7E00AAAF00AAB100AAB100AAB500AAB600AAB900AABD00AAC000AAC0"
    \o "00AAC200AAC200AADB00AADD00AAE000AAEA00AAF200AAF400AB0100AB06"
    \o "00AB0900AB0E00AB1100AB1600AB2000AB2600AB2800AB2E00AB3000AB5A"
    \o "00AB5C00AB6900AB7000ABE200ABF000ABF900AC0000D7A300D7B000D7C6"
    \o "00D7CB00D7FB00F90000FA6D00FA7000FAD900FB0000FB0600FB1300FB17"
    \o "00FB1D00FB1D00FB1F00FB2800FB2A00FB3600FB3800FB3C00FB3E00FB3E"
    \o "00FB4000FB4100FB4300FB4400FB4600FBB100FBD300FD3D00FD5000FD8F"
    \o "00FD9200FDC700FDF000FDFB00FE7000FE7400FE7600FEFC00FF1000FF19"
    \o "00FF2100FF3A00FF4100FF5A00FF6600FFBE00FFC200FFC700FFCA00FFCF"
    \o "00FFD200FFD700FFDA00FFDC01000001000B01000D01002601002801003A"
    \o "01003C01003D01003F01004D01005001005D0100800100FA010107010133"
    \o "01014001017801018A01018B01028001029C0102A00102D00102E10102FB"
    \o "01030001032301032D01034A01035001037501038001039D0103A00103C3"
    \o "0103C80103CF0103D10103D501040001049D0104A00104A90104B00104D3"
    \o "0104D80104FB01050001052701053001056301057001057A01057C01058A"
    \o "01058C0105920105940105950105970105A10105A30105B10105B30105B9"
    \o "0105BB0105BC010600010736010740010755010760010767010780010785"
    \o "0107870107B00107B20107BA01080001080501080801080801080A010835"
    \o "01083701083801083C01083C01083F01085501085801087601087901089E"
    \o "0108A70108AF0108E00108F20108F40108F50108FB01091B010920010939"
    \o "0109800109B70109BC0109CF0109D2010A00010A10010A13010A15010A17"
    \o "010A19010A35010A40010A48010A60010A7E010A80010A9F010AC0010AC7"
    \o "010AC9010AE4010AEB010AEF010B00010B35010B40010B55010B58010B72"
    \o "010B78010B91010BA9010BAF010C00010C48010C80010CB2010CC0010CF2"
    \o "010CFA010D23010D30010D39010E60010E7E010E80010EA9010EB0010EB1"
    \o "010F00010F27010F30010F45010F51010F54010F70010F81010FB0010FCB"
    \o "010FE0010FF601100301103701105201106F011071011072011075011075"
    \o "0110830110AF0110D00110E80110F00110F901110301112601113601113F"
    \o "0111440111440111470111470111500111720111760111760111830111B2"
    \o "0111C10111C40111D00111DA0111DC0111DC0111E10111F4011200011211"
    \o "01121301122B01128001128601128801128801128A01128D01128F01129D"
    \o "01129F0112A80112B00112DE0112F00112F901130501130C01130F011310"
    \o "01131301132801132A01133001133201133301133501133901133D01133D"
    \o "01135001135001135D01136101140001143401144701144A011450011459"
    \o "01145F0114610114800114AF0114C40114C50114C70114C70114D00114D9"
    \o "0115800115AE0115D80115DB01160001162F011644011644011650011659"
    \o "0116800116AA0116B80116B80116C00116C901170001171A01173001173B"
    \o "01174001174601180001182B0118A00118F20118FF011906011909011909"
    \o "01190C01191301191501191601191801192F01193F01193F011941011941"
    \o "0119500119590119A00119A70119AA0119D00119E10119E10119E30119E3"
    \o "011A00011A00011A0B011A32011A3A011A3A011A50011A50011A5C011A89"
    \o "011A9D011A9D011AB0011AF8011C00011C08011C0A011C2E011C40011C40"
    \o "011C50011C6C011C72011C8F011D00011D06011D08011D09011D0B011D30"
    \o "011D46011D46011D50011D59011D60011D65011D67011D68011D6A011D89"
    \o "011D98011D98011DA0011DA9011EE0011EF2011FB0011FB0011FC0011FD4"
    \o "01200001239901240001246E012480012543012F90012FF001300001342E"
    \o "014400014646016800016A38016A40016A5E016A60016A69016A70016ABE"
    \o "016AC0016AC9016AD0016AED016B00016B2F016B40016B43016B50016B59"
    \o "016B5B016B61016B63016B77016B7D016B8F016E40016E96016F00016F4A"
    \o "016F50016F50016F93016F9F016FE0016FE1016FE3016FE30170000187F7"
    \o "018800018CD5018D00018D0801AFF001AFF301AFF501AFFB01AFFD01AFFE"
    \o "01B00001B12201B15001B15201B16401B16701B17001B2FB01BC0001BC6A"
    \o "01BC7001BC7C01BC8001BC8801BC9001BC9901D2E001D2F301D36001D378"
    \o "01D40001D45401D45601D49C01D49E01D49F01D4A201D4A201D4A501D4A6"
    \o "01D4A901D4AC01D4AE01D4B901D4BB01D4BB01D4BD01D4C301D4C501D505"
    \o "01D50701D50A01D50D01D51401D51601D51C01D51E01D53901D53B01D53E"
    \o "01D54001D54401D54601D54601D54A01D55001D55201D6A501D6A801D6C0"
    \o "01D6C201D6DA01D6DC01D6FA01D6FC01D71401D71601D73401D73601D74E"
    \o "01D75001D76E01D77001D78801D78A01D7A801D7AA01D7C201D7C401D7CB"
    \o "01D7CE01D7FF01DF0001DF1E01E10001E12C01E13701E13D01E14001E149"
    \o "01E14E01E14E01E29001E2AD01E2C001E2EB01E2F001E2F901E7E001E7E6"
    \o "01E7E801E7EB01E7ED01E7EE01E7F001E7FE01E80001E8C401E8C701E8CF"
    \o "01E90001E94301E94B01E94B01E95001E95901EC7101ECAB01ECAD01ECAF"
    \o "01ECB101ECB401ED0101ED2D01ED2F01ED3D01EE0001EE0301EE0501EE1F"
    \o "01EE2101EE2201EE2401EE2401EE2701EE2701EE2901EE3201EE3401EE37"
    \o "01EE3901EE3901EE3B01EE3B01EE4201EE4201EE4701EE4701EE4901EE49"
    \o "01EE4B01EE4B01EE4D01EE4F01EE5101EE5201EE5401EE5401EE5701EE57"
    \o "01EE5901EE5901EE5B01EE5B01EE5D01EE5D01EE5F01EE5F01EE6101EE62"
    \o "01EE6401EE6401EE6701EE6A01EE6C01EE7201EE7401EE7701EE7901EE7C"
    \o "01EE7E01EE7E01EE8001EE8901EE8B01EE9B01EEA101EEA301EEA501EEA9"
    \o "01EEAB01EEBB01F10001F10C01FBF001FBF902000002A6DF02A70002B738"
    \o "02B74002B81D02B82002CEA102CEB002EBE002F80002FA1D03000003134A"
UnicodeAlnumRanges == Ranges(UnicodeAlnumTable)
\* \w of a str pattern: the alphanumeric characters and the underscore
WordChar == AsciiDigit \cup Upper \cup Lower \cup {"_"} \cup InRanges(UnicodeAlnumRanges)
\* \s of a str pattern, which is also what str.isspace(), str.strip() and str.split()
\* take for whitespace
Space == {" ", "\n", "\t", "\r", "\f", "U+000B", "U+001C", "U+001D", "U+001E",
          "U+001F", "U+0085", "U+00A0", "U+1680", "U+2000", "U+2001",
          "U+2002", "U+2003", "U+2004", "U+2005", "U+2006", "U+2007",
          "U+2008", "U+2009", "U+200A", "U+2028", "U+2029", "U+202F",
          "U+205F", "U+3000"}

\* an optional value (a value or Python's None) is a sequence of length 1 or 0
None == << >>
Some(x) == <<x>>
\* the local variables of process_pdfs before the first file
NoLocals == << >>
\* the truth value of an optional string: None and '' are false
Truthy(o) == o # None /\ o[1] # << >>

(***************************************************************************)
(* String primitives of Python used by the source.  Loops over a text are  *)
(* folds over an index range, split in halves so that the depth of the     *)
(* evaluation grows with the logarithm of the length.                      *)
(***************************************************************************)
Min(S) == CHOOSE i \in S : \A j \in S : i <= j
Max(S) == CHOOSE i \in S : \A j \in S : j <= i

\* text[i..] starts with the literal lit (i is 1-based)
StartsWithAt(text, lit, i) ==
    /\ i >= 1
    /\ i + Len(lit) - 1 <= Len(text)
    /\ \A k \in 1..Len(lit) : text[i + k - 1] = lit[k]

\* str.find: the first index >= from where lit occurs in text, 0 when none
Find(text, lit, from) ==
    LET at == {i \in from..(Len(text) - Len(lit) + 1) : StartsWithAt(text, lit, i)}
    IN  IF at = {} THEN 0 ELSE Min(at)

\* the length of the maximal run of characters of class cls that starts at from
RunLen(text, from, cls) ==
    Min({k \in from..(Len(text) + 1) : k > Len(text) \/ text[k] \notin cls}) - from

(***************************************************************************)
(* The patterns of the source, each as the match it makes at one position: *)
(* the index of the last character of the match that starts at position i, *)
(* 0 when none starts there.                                               *)
(***************************************************************************)
\* a literal text (str.replace)
LiteralEnd(text, lit, i) == IF StartsWithAt(text, lit, i) THEN i + Len(lit) - 1 ELSE 0

\* the closing literal optional: an opening literal alone matches to the end of the text
EquationEnd_unclosed(text, open, close, i) ==
    IF StartsWithAt(text, open, i)
    THEN LET c == Find(text, close, i + Len(open))
         IN  IF c = 0 THEN Len(text) ELSE c + Len(close) - 1
    ELSE 0

\* open(.*?)close with DOTALL matched at position i: from the opening literal to the
\* first closing literal behind it
EquationEnd(text, open, close, i) ==
    IF StartsWithAt(text, open, i)
    THEN LET c == Find(text, close, i + Len(open))
         IN  IF c = 0 THEN 0 ELSE c + Len(close) - 1
    ELSE 0

IsWord(text, i) == i >= 1 /\ i <= Len(text) /\ text[i] \in WordChar

\* \b between text[i-1] and text[i]: exactly one side is a word character
Boundary(text, i) == IsWord(text, i - 1) # IsWord(text, i)

\* \[EQ_\w+_\d+\] matched at position i: the index of the closing bracket, 0 when
\* there is no match.  The word characters between "[EQ_" and "]" must end in
\* "_" and one or more digits, with at least one word character before the "_".
\* the number of digits that end the run of w characters before position close
TrailingDigits(text, close, w) ==
    Min({n \in 0..w : n = w \/ text[close - n - 1] \notin Digit})

\* "]" at position close behind a run of w word characters that ends in "_" and d digits
PlaceholderClose(text, close, w, d) ==
    IF /\ close <= Len(text)
       /\ text[close] = "]"
       /\ d >= 1
       /\ w >= d + 2
       /\ text[close - d - 1] = "_"
    THEN close
    ELSE 0

\* the run of w word characters behind "[EQ_" at position i
PlaceholderRun(text, i, w) ==
    PlaceholderClose(text, i + 4 + w, w, TrailingDigits(text, i + 4 + w, w))

PlaceholderEnd(text, i) ==
    IF StartsWithAt(text, <<"[", "E", "Q", "_">>, i)
    THEN PlaceholderRun(text, i, RunLen(text, i + 4, WordChar))
    ELSE 0

\* (?<!\b\w\w\.) at position p: the three characters before p are not a
\* two-letter word followed by a full stop
NotAbbreviation(text, p) ==
    ~ ( /\ p >= 4
        /\ text[p - 1] = "."
        /\ text[p - 2] \in WordChar
        /\ text[p - 3] \in WordChar
        /\ Boundary(text, p - 3) )

\* (?=[A-Z]) behind position e
BeforeCapital(text, e) == IF e + 1 <= Len(text) /\ text[e + 1] \in Upper THEN e ELSE 0

\* (?<!\b\w\w\.)(?<=[.!?])\s+(?=[A-Z]) matched at position p: the index of the
\* last whitespace character of the match, 0 when there is no match
SplitEnd(text, p) ==
    IF /\ p >= 2
       /\ p <= Len(text)
       /\ text[p - 1] \in {".", "!", "?"}
       /\ text[p] \in Space
       /\ NotAbbreviation(text, p)
    THEN BeforeCapital(text, p + RunLen(text, p, Space) - 1)
    ELSE 0

\* \b[\w-]+\b matched at position i: the index of the last character of the match,
\* 0 when there is no match (the longest run that ends at a word boundary)
LastOf(ends, i) == IF ends = {} THEN 0 ELSE i + Max(ends) - 1

\* the longest part of the run of run characters at position i that ends at a boundary
WordRun(text, i, run) == LastOf({l \in 1..run : Boundary(text, i + l)}, i)

WordEnd(text, i) ==
    IF Boundary(text, i)
    THEN WordRun(text, i, RunLen(text, i, WordChar \cup {"-"}))
    ELSE 0

\* the match of a pattern at position i
MatchEnd(pat, text, i) ==
    CASE pat.kind = "literal" -> LiteralEnd(text, pat.lit, i)
      [] pat.kind = "equation" -> EquationEnd(text, pat.open, pat.close, i)
      [] pat.kind = "placeholder" -> PlaceholderEnd(text, i)
      [] pat.kind = "sentence_break" -> SplitEnd(text, i)
      [] pat.kind = "word" -> WordEnd(text, i)

\* the scan of the regular expression engine over the positions lo..hi of text,
\* resumed at position p: after a match the scan resumes behind it, otherwise at the
\* next position.  found: the <<first, last>> of each match.
ScanStep(lo, e) ==
    IF e > 0 THEN [found |-> << <<lo, e>> >>, next |-> e + 1]
    ELSE [found |-> << >>, next |-> lo + 1]

ScanJoin(L, R) == [found |-> L.found \o R.found, next |-> R.next]

RECURSIVE ScanRange(_, _, _, _, _)
RECURSIVE ScanRight(_, _, _, _, _)
ScanRange(text, pat, p, lo, hi) ==
    IF lo > hi \/ hi < p THEN [found |-> << >>, next |-> p]
    ELSE IF lo = hi THEN ScanStep(lo, MatchEnd(pat, text, lo))
    ELSE ScanRight(text, pat, ScanRange(text, pat, p, lo, (lo + hi) \div 2),
                   (lo + hi) \div 2 + 1, hi)

\* the scan of the right half, resumed where the scan L of the left half ended
ScanRight(text, pat, L, lo, hi) == ScanJoin(L, ScanRange(text, pat, L.next, lo, hi))

\* the non-overlapping matches of a pattern in text, left to right
re_matches(text, pat) == ScanRange(text, pat, 1, 1, Len(text)).found

\* the pieces of text outside the matches ms: before the first, between, after the last
between(text, ms, k) ==
    SubSeq(text,
           IF k = 1 THEN 1 ELSE ms[k - 1][2] + 1,
           IF k > Len(ms) THEN Len(text) ELSE ms[k][1] - 1)

\* text with each of the matches ms[lo..hi] and the piece before it, the match replaced by new
RECURSIVE SubstRange(_, _, _, _, _)
SubstRange(text, ms, new, lo, hi) ==
    IF lo > hi THEN << >>
    ELSE IF lo = hi THEN between(text, ms, lo) \o new
    ELSE LET mid == (lo + hi) \div 2
         IN  SubstRange(text, ms, new, lo, mid) \o SubstRange(text, ms, new, mid + 1, hi)

\* re.sub and str.replace: every match replaced by new
substitute(text, ms, new) ==
    SubstRange(text, ms, new, 1, Len(ms)) \o between(text, ms, Len(ms) + 1)

\* str.replace(old, new) for a non-empty old: every non-overlapping occurrence, left to right
str_replace(text, old, new) ==
    substitute(text, re_matches(text, [kind |-> "literal", lit |-> old]), new)

\* str.strip(): whitespace removed from both ends
str_strip(s) ==
    LET ink == {i \in 1..Len(s) : s[i] \notin Space}
    IN  IF ink = {} THEN << >> ELSE SubSeq(s, Min(ink), Max(ink))

\* len(s): the characters counted instead of the tokens
split_len_chars(s) == Len(s)

\* len(s.split()): the number of maximal runs of non-whitespace characters
split_len(s) ==
    Cardinality({i \in 1..Len(s) :
        /\ s[i] \notin Space
        /\ (i = 1 \/ s[i - 1] \in Space)})

\* str(n) for n >= 0, in decimal
DigitChar(d) ==
    CASE d = 0 -> "0" [] d = 1 -> "1" [] d = 2 -> "2" [] d = 3 -> "3"
      [] d = 4 -> "4" [] d = 5 -> "5" [] d = 6 -> "6" [] d = 7 -> "7"
      [] d = 8 -> "8" [] d = 9 -> "9"

RECURSIVE int_str(_)
int_str(n) == IF n < 10 THEN <<DigitChar(n)>> ELSE int_str(n \div 10) \o <<DigitChar(n % 10)>>

(***************************************************************************)
(* preserve_equations                                                      *)
(***************************************************************************)
BEGIN_EQ == <<"\\", "b", "e", "g", "i", "n", "{", "e", "q", "u", "a", "t", "i", "o", "n", "}">>
END_EQ == <<"\\", "e", "n", "d", "{", "e", "q", "u", "a", "t", "i", "o", "n", "}">>
OPEN_BR == <<"\\", "[">>
CLOSE_BR == <<"\\", "]">>
DOLLAR == <<"$">>
DISPLAY == <<"D", "I", "S", "P", "L", "A", "Y">>
INLINE == <<"I", "N", "L", "I", "N", "E">>

\* the three patterns open(.*?)close with their types, in the order of the list
equation_patterns ==
    << [open |-> BEGIN_EQ, close |-> END_EQ, type |-> DISPLAY],
       [open |-> OPEN_BR, close |-> CLOSE_BR, type |-> DISPLAY],
       [open |-> DOLLAR, close |-> DOLLAR, type |-> INLINE] >>

\* re.finditer(pattern, text, flags): group(0) and group(1) of each match
groups(text, ms, open, close) ==
    [k \in 1..Len(ms) |->
        [group0 |-> SubSeq(text, ms[k][1], ms[k][2]),
         group1 |-> SubSeq(text, ms[k][1] + Len(open), ms[k][2] - Len(close))]]

finditer(text, open, close) ==
    groups(text, re_matches(text, [kind |-> "equation", open |-> open, close |-> close]),
           open, close)

make_placeholder(type, counter) ==
    <<"[", "E", "Q", "_">> \o type \o <<"_">> \o int_str(counter) \o <<"]">>

\* text.replace(match.group(0), placeholder)
replace_match(text, group0, placeholder) == str_replace(text, group0, placeholder)

\* the body of the inner loop for one match
apply_match(st, m, type) ==
    LET equation == str_strip(m.group1)
        placeholder == make_placeholder(type, st.counter)
    IN  [counter |-> st.counter + 1,
         text |-> replace_match(st.text, m.group0, placeholder),
         equations |-> Append(st.equations,
             [placeholder |-> placeholder, equation |-> equation,
              type |-> type, length |-> split_len(equation)])]

\* the inner loop over matches[lo..hi]; the matches were found in the text as it was
\* when the pass began
RECURSIVE apply_matches(_, _, _, _, _)
apply_matches(st, matches, type, lo, hi) ==
    IF lo > hi THEN st
    ELSE IF lo = hi THEN apply_match(st, matches[lo], type)
    ELSE LET mid == (lo + hi) \div 2
         IN  apply_matches(apply_matches(st, matches, type, lo, mid),
                           matches, type, mid + 1, hi)

\* the outer loop, from pattern k on
RECURSIVE apply_patterns(_, _)
apply_patterns(st, k) ==
    IF k > Len(equation_patterns) THEN st
    ELSE LET p == equation_patterns[k]
             matches == finditer(st.text, p.open, p.close)
         IN  apply_patterns(apply_matches(st, matches, p.type, 1, Len(matches)), k + 1)

preserve_equations(text) ==
    LET st == apply_patterns([text |-> text, equations |-> << >>, counter |-> 1], 1)
    IN  [text |-> st.text, equations |-> st.equations]

(***************************************************************************)
(* extract_arxiv_id                                                        *)
(***************************************************************************)
DOT_PDF == <<".", "p", "d", "f">>

AllDigits(text, from, n) ==
    /\ from + n - 1 <= Len(text)
    /\ \A k \in from..(from + n - 1) : text[k] \in Digit

\* \.pdf$ at position q: '$' matches at the end and just before a final newline
PdfAtEnd(text, q) ==
    /\ StartsWithAt(text, DOT_PDF, q)
    /\ \/ q + 3 = Len(text)
       \/ q + 4 = Len(text) /\ text[Len(text)] = "\n"

\* (v\d+)?\.pdf$ at position p
VersionThenPdf(text, p) ==
    \/ /\ p <= Len(text)
       /\ text[p] = "v"
       /\ RunLen(text, p + 1, Digit) >= 1
       /\ PdfAtEnd(text, p + 1 + RunLen(text, p + 1, Digit))
    \/ PdfAtEnd(text, p)

\* \d{5} in place of \d{4,5}
minor_digits_five == {5}

\* the numbers of digits \d{4,5} may match
minor_digits == {4, 5}

\* (\d{4}\.\d{4,5})(v\d+)?\.pdf$ matched at position s: the number of digits matched
\* behind the dot, 0 when there is no match at s
IdMatchAt(text, s) ==
    IF /\ AllDigits(text, s, 4)
       /\ s + 4 <= Len(text)
       /\ text[s + 4] = "."
    THEN LET ok == {n \in minor_digits :
                      /\ AllDigits(text, s + 5, n)
                      /\ VersionThenPdf(text, s + 5 + n)}
         IN  IF ok = {} THEN 0 ELSE Max(ok)
    ELSE 0

\* re.search and match.group(1): the leftmost position with a match
extract_arxiv_id(filename) ==
    LET at == {s \in 1..Len(filename) : IdMatchAt(filename, s) > 0}
    IN  IF at = {} THEN None
        ELSE Some(SubSeq(filename, Min(at), Min(at) + 4 + IdMatchAt(filename, Min(at))))

(***************************************************************************)
(* calculate_readability                                                   *)
(***************************************************************************)
MIN_SENTENCE_LEN == 10
MAX_SENTENCE_LEN == 500

\* re.sub(r'\[EQ_\w+_\d+\]', '', text)
strip_placeholders(text) == substitute(text, re_matches(text, [kind |-> "placeholder"]), << >>)

\* re.split: the pieces of text between the matches
pieces(text, ms) == [k \in 1..(Len(ms) + 1) |-> between(text, ms, k)]

split_sentences(text) == pieces(text, re_matches(text, [kind |-> "sentence_break"]))

\* the limits included: 10 <= len(s) <= 500
keep_sentence_inclusive(s) == MIN_SENTENCE_LEN <= Len(s) /\ Len(s) <= MAX_SENTENCE_LEN

\* the filter of the list comprehension: 10 < len(s) < 500
keep_sentence(s) == MIN_SENTENCE_LEN < Len(s) /\ Len(s) < MAX_SENTENCE_LEN

\* [s.strip() for s in sentences[lo..hi] if 10 < len(s) < 500]
RECURSIVE filter_sentences(_, _, _)
filter_sentences(segs, lo, hi) ==
    IF lo > hi THEN << >>
    ELSE IF lo = hi
    THEN (IF keep_sentence(segs[lo]) THEN <<str_strip(segs[lo])>> ELSE << >>)
    ELSE LET mid == (lo + hi) \div 2
         IN  filter_sentences(segs, lo, mid) \o filter_sentences(segs, mid + 1, hi)

\* len(re.findall(r'\b[\w-]+\b', text))
count_words(text) == Len(re_matches(text, [kind |-> "word"]))

\* len(words)/len(sentences) without the test for an empty list
avg_sentence_length_unguarded(n_words, n_sentences) ==
    [num |-> n_words, den |-> n_sentences]

\* len(words)/len(sentences) if sentences else 0, as an exact fraction
avg_sentence_length(n_words, n_sentences) ==
    IF n_sentences # 0 THEN [num |-> n_words, den |-> n_sentences]
    ELSE [num |-> 0, den |-> 1]

\* a score of the textstat library: a function of the cleaned text, not interpreted
textstat(fn, text) == [fn |-> fn, arg |-> text]

\* the list comprehension over all pieces
sentences_of(segments) == filter_sentences(segments, 1, Len(segments))

\* the returned dictionary
metrics(clean_text, n_words, n_sentences) ==
    [word_count |-> n_words,
     sentence_count |-> n_sentences,
     avg_sentence_length |-> avg_sentence_length(n_words, n_sentences),
     flesch_reading_ease |-> textstat("flesch_reading_ease", clean_text),
     gunning_fog |-> textstat("gunning_fog", clean_text),
     smog_index |-> textstat("smog_index", clean_text)]

\* the statements behind the removal of the placeholders
readability_of(clean_text) ==
    metrics(clean_text, count_words(clean_text),
            Len(sentences_of(split_sentences(clean_text))))

calculate_readability(text) == readability_of(strip_placeholders(text))

(***************************************************************************)
(* get_paper_metadata and the helpers of process_pdfs                      *)
(***************************************************************************)
TEXT_DIR == <<".", "/", "p", "r", "o", "c", "e", "s", "s", "e", "d", "_", "p", "a", "p", "e", "r", "s">>
UNKNOWN == <<"U", "n", "k", "n", "o", "w", "n">>
ARXIV == <<"a", "r", "X", "i", "v">>
DOT_TXT == <<".", "t", "x", "t">>
EQUATIONS_CSV == <<"_", "e", "q", "u", "a", "t", "i", "o", "n", "s", ".", "c", "s", "v">>
Null == "NaN"

\* sep.join(items[lo..hi])
RECURSIVE JoinRange(_, _, _, _)
JoinRange(items, sep, lo, hi) ==
    IF lo > hi THEN << >>
    ELSE IF lo = hi THEN items[lo]
    ELSE LET mid == (lo + hi) \div 2
         IN  JoinRange(items, sep, lo, mid) \o sep \o JoinRange(items, sep, mid + 1, hi)

str_join(sep, items) == JoinRange(items, sep, 1, Len(items))

\* s.split('.')[0]
split_first(s, ch) ==
    LET p == Find(s, <<ch>>, 1) IN IF p = 0 THEN s ELSE SubSeq(s, 1, p - 1)

\* filename.endswith('.pdf')
endswith(s, suffix) == StartsWithAt(s, suffix, Len(s) - Len(suffix) + 1)

\* os.path.splitext(filename)[0] for a name without separators: cut at the last dot,
\* unless only dots come before it
splitext_root(filename) ==
    LET dots == {i \in 1..Len(filename) : filename[i] = "."}
        last == Max(dots)
    IN  IF dots # {} /\ (\E i \in 1..(last - 1) : filename[i] # ".")
        THEN SubSeq(filename, 1, last - 1)
        ELSE filename

\* os.path.join(TEXT_DIR, name)
path_join(dir, name) == dir \o <<"/">> \o name

\* datetime.date(): the time of day is dropped
date_of(dt) == [year |-> dt.year, month |-> dt.month, day |-> dt.day]

\* the body of the try block of get_paper_metadata for a result of the catalog
metadata_of(result) ==
    [title |-> result.title,
     authors |-> str_join(<<";", " ">>, result.authors),
     published_date |-> date_of(result.published),
     primary_category |-> result.primary_category,
     categories |-> str_join(<<",", " ">>, result.categories),
     doi |-> IF Truthy(result.doi) THEN result.doi[1] ELSE << >>,
     journal_ref |-> IF Truthy(result.journal_ref) THEN result.journal_ref[1] ELSE ARXIV]

\* except clause missing: the exception of the lookup leaves get_paper_metadata
get_paper_metadata_raises(response) ==
    IF response.kind \in {"error", "empty"} THEN [raised |-> TRUE, value |-> None]
    ELSE [raised |-> FALSE, value |-> Some(metadata_of(response.result))]

\* get_paper_metadata for the response of the catalog, of kind "error" (the request
\* raised), "empty" (no result: next() raises StopIteration) or "result".  The bare
\* except turns every exception into None.
get_paper_metadata(response) ==
    IF response.kind \in {"error", "empty"} THEN [raised |-> FALSE, value |-> None]
    ELSE [raised |-> FALSE, value |-> Some(metadata_of(response.result))]

\* meta['primary_category'].split('.')[0] raises AttributeError when the entry of
\* the catalog has no primary category
make_row_raises(c) == c.meta # None /\ c.meta[1].primary_category = None

\* the dictionary appended to the list; a later key of the literal wins
make_row(c, year) ==
    LET fields ==
            c.metrics
            @@ [paper_id |-> c.paper_id,
                arxiv_id |-> c.arxiv_id,
                text_path |-> c.text_path,
                equation_path |-> IF c.equations # << >> THEN Some(c.eq_path) ELSE None,
                domain |-> IF c.meta # None
                           THEN split_first(c.meta[1].primary_category[1], ".")
                           ELSE UNKNOWN,
                year |-> IF c.meta # None THEN c.meta[1].published_date.year ELSE year]
    IN  IF c.meta # None THEN c.meta[1] @@ fields ELSE fields

\* the columns taken from the first row alone
data_frame_columns_first(rows) == IF rows = << >> THEN {} ELSE DOMAIN rows[1]

\* pd.DataFrame(rows): the columns are the keys of all rows, a missing value is NaN
data_frame_columns(rows) == UNION {DOMAIN rows[k] : k \in 1..Len(rows)}

data_frame(rows) ==
    [columns |-> data_frame_columns(rows),
     rows |-> [k \in 1..Len(rows) |->
                 [col \in data_frame_columns(rows) |->
                     IF col \in DOMAIN rows[k] THEN rows[k][col] ELSE Null]]]

(***************************************************************************)
(* Inputs                                                                  *)
(***************************************************************************)
\* the concatenation of a sequence of texts
RECURSIVE Flatten(_)
Flatten(chunks) == IF chunks = << >> THEN << >> ELSE Head(chunks) \o Flatten(Tail(chunks))

SeqsUpTo(S, n) == UNION {[1..k -> S] : k \in 0..n}

\* the first n characters of a fixed run of digits
Digits(n) == SubSeq(<<"2", "1", "0", "7", "3", "9", "5">>, 1, n)

\* the first n characters of a fixed run of Arabic-Indic digits
ArabicDigits(n) ==
    SubSeq(<<"U+0662", "U+0661", "U+0660", "U+0667", "U+0663", "U+0669", "U+0665">>, 1, n)

MaxMinorDigits == 6

\* filenames: prefix, NNNN, separator, N..N, version suffix, extension
IdInputs ==
    {pre \o Digits(major) \o sep \o run \o ver \o ext :
        pre \in {<< >>, <<"p", "_">>, <<"9">>, <<"1", ".">>},
        major \in 3..5,
        sep \in {<<".">>, <<"_">>},
        run \in {Digits(minor) : minor \in 3..MaxMinorDigits}
                 \cup {ArabicDigits(minor) : minor \in 3..MaxMinorDigits},
        ver \in {<< >>, <<"v", "1">>, <<"v", "1", "2">>, <<"v">>, <<"1", "v">>},
        ext \in {DOT_PDF, <<".", "P", "D", "F">>, <<".", "p", "d", "f", "\n">>,
                 <<".", "p", "d", "f", "x">>, <<"p", "d", "f">>, << >>}}

MaxChunks == 3

EqChunks ==
    { DOLLAR, <<"$", "x", "$">>, OPEN_BR, CLOSE_BR, <<"\\", "[", "y", "\\", "]">>,
      <<"\\">>, <<" ", "a", " ", "b">>, <<"[", "E", "Q", "_", "I", "N", "L", "I", "N", "E", "_", "1", "]">>,
      BEGIN_EQ, END_EQ, <<"$", "U+000B", "x", "U+00A0", "y", "U+000B", "$">> }

\* the example of the specification
ExampleText ==
    <<"T", "h", "e", " ", "m", "o", "d", "e", "l", " ", "a", "c", "h", "i", "e", "v", "e", "s", " ", "\\", "[", "x", "^", "2", " ", "+", " ", "y", "^", "2", " ", "=", " ", "z", "^", "2", "\\", "]", " ", "a", "c", "c", "u", "r", "a", "c", "y", " ", "o", "f", " ", "9", "5", "%", ".", " ", "I", "t", " ", "o", "u", "t", "p", "e", "r", "f", "o", "r", "m", "s", " ", "b", "a", "s", "e", "l", "i", "n", "e", "s", ".">>

EqInputs == {Flatten(c) : c \in SeqsUpTo(EqChunks, MaxChunks)} \cup {ExampleText}

Margin == 2
MaxReadChunks == 3

\* a text of n characters: words of four letters, a capital first and a full stop last
Sentence(n) ==
    [i \in 1..n |-> IF i = 1 THEN "A" ELSE IF i = n THEN "." ELSE IF i % 5 = 0 THEN " " ELSE "b"]

\* lengths at both limits of the sentence filter, and short ones
Lengths ==
    (0..Margin)
    \cup ((MIN_SENTENCE_LEN - Margin)..(MIN_SENTENCE_LEN + Margin))
    \cup ((MAX_SENTENCE_LEN - Margin)..(MAX_SENTENCE_LEN + Margin))

ReadChunks ==
    { <<"D", "r", ".">>, <<" ">>, <<"A">>, <<"a", "-", "b">>, <<".">>, <<"-">>,
      <<"[", "E", "Q", "_", "I", "N", "L", "I", "N", "E", "_", "1", "]">>,
      <<"H", "e", "l", "l", "o", " ", "w", "o", "r", "l", "d">>,
      <<"U+000B">>, <<"U+03C9", "U+00E9", ".">> }

ReadInputs ==
    {Sentence(n1) \o sep \o Sentence(n2) :
        n1 \in Lengths,
        n2 \in {0} \cup ((MIN_SENTENCE_LEN - Margin)..(MIN_SENTENCE_LEN + Margin)),
        sep \in {<< >>, <<" ">>, <<"\n", " ">>, <<"U+000B">>}}
    \cup {Flatten(c) : c \in SeqsUpTo(ReadChunks, MaxReadChunks)}

(***************************************************************************)
(* The functions applied to one input each                                 *)
(***************************************************************************)
DrvIdle ==
    /\ listing = << >> /\ idx = 0 /\ stage = "idle" /\ cur = NoLocals
    /\ metadata = << >> /\ written = << >> /\ table = "none" /\ aborted = FALSE
    /\ clock_year = 0 /\ outcome = << >> /\ lookup = << >> /\ row_file = << >>

EqIdle == eq_pc = "idle" /\ eq_in = << >> /\ eq_out = "none" /\ eq_again = "none"
IdIdle == id_pc = "idle" /\ id_in = << >> /\ id_out = None
RdIdle == rd_pc = "idle" /\ rd_in = << >> /\ rd_out = "none"

InitId ==
    /\ id_pc = "start" /\ id_in \in IdInputs /\ id_out = None
    /\ EqIdle /\ RdIdle /\ DrvIdle

IdExtract ==
    /\ id_pc = "start"
    /\ id_out' = extract_arxiv_id(id_in)
    /\ id_pc' = "done"
    /\ UNCHANGED <<id_in, eq_vars, rd_vars, drv_vars>>

SpecId == InitId /\ [][IdExtract]_vars

InitEq ==
    /\ eq_pc = "start" /\ eq_in \in EqInputs /\ eq_out = "none" /\ eq_again = "none"
    /\ IdIdle /\ RdIdle /\ DrvIdle

EqIsolate ==
    /\ eq_pc = "start"
    /\ eq_out' = preserve_equations(eq_in)
    /\ eq_pc' = "isolated"
    /\ UNCHANGED <<eq_in, eq_again, id_vars, rd_vars, drv_vars>>

\* the isolator applied to the text it returned
EqIsolateAgain ==
    /\ eq_pc = "isolated"
    /\ eq_again' = preserve_equations(eq_out.text)
    /\ eq_pc' = "again"
    /\ UNCHANGED <<eq_in, eq_out, id_vars, rd_vars, drv_vars>>

InitRead ==
    /\ rd_pc = "start" /\ rd_in \in ReadInputs /\ rd_out = "none"
    /\ EqIdle /\ IdIdle /\ DrvIdle

ReadScore ==
    /\ rd_pc = "start"
    /\ rd_out' = calculate_readability(rd_in)
    /\ rd_pc' = "done"
    /\ UNCHANGED <<rd_in, eq_vars, id_vars, drv_vars>>

SpecRead == InitRead /\ [][ReadScore]_vars

NextEq == EqIsolate \/ EqIsolateAgain

SpecEq == InitEq /\ [][NextEq]_vars

(***************************************************************************)
(* process_pdfs                                                            *)
(***************************************************************************)
MaxFiles == 2

FileNames ==
    { <<"2", "3", "0", "1", ".", "0", "1", "2", "3", "4", ".", "p", "d", "f">>,
      <<"2", "3", "0", "1", ".", "0", "1", "2", "3", "4", "v", "2", ".", "p", "d", "f">>,
      <<"n", "o", "t", "U+00E9", "s", ".", "p", "d", "f">>,
      <<"r", "e", "a", "d", "m", "e", ".", "t", "x", "t">> }

\* what os.listdir may return: distinct names
Listings ==
    {l \in SeqsUpTo(FileNames, MaxFiles) : \A i, j \in 1..Len(l) : i # j => l[i] # l[j]}

\* what extract_pdf_text may return
RawTexts == { << >>, <<"H", "U+00E9", " ", "$", "x", "$", ".">>, <<"a", "U+D800">> }

\* what the catalog may answer: an entry, with or without a primary category
CatalogResults ==
    { [title |-> <<"A", " ", "T", "i", "t", "l", "e">>,
       authors |-> << <<"A", ".", " ", "O", "n", "e">>, <<"B", ".", " ", "T", "w", "o">> >>,
       published |-> [year |-> 2023, month |-> 1, day |-> 3, hour |-> 18],
       primary_category |-> pc,
       categories |-> << <<"s", "t", "a", "t", ".", "M", "L">>, <<"c", "s", ".", "L", "G">> >>,
       doi |-> None,
       journal_ref |-> None] : pc \in {Some(<<"s", "t", "a", "t", ".", "M", "L">>), None} }

CatalogResponses ==
    {[kind |-> "error"], [kind |-> "empty"]}
    \cup {[kind |-> "result", result |-> r] : r \in CatalogResults}

CurrentYears == {2025, 2026}

InitDriver ==
    /\ listing \in Listings
    /\ clock_year \in CurrentYears
    /\ idx = 0 /\ stage = "scan" /\ cur = NoLocals
    /\ metadata = << >> /\ written = << >> /\ table = "none" /\ aborted = FALSE
    /\ outcome = << >> /\ lookup = << >> /\ row_file = << >>
    /\ EqIdle /\ IdIdle /\ RdIdle

other_vars == <<eq_vars, id_vars, rd_vars, listing, clock_year>>

\* the printable ASCII characters in the order of their codes, 32 to 126, with a
\* space in the place of the grave accent (code 96), which a text holds as "U+0060"
AsciiTable ==
    " !\"#$%&'()*+,-./0123456789:;<=>?@ABCDEFGHIJKLMNOPQRSTUVWXYZ" \o
    "[\\]^_ abcdefghijklmnopqrstuvwxyz{|}~"

\* ord(c)
ord(c) ==
    IF Len(c) > 1 THEN CodePoint(c)
    ELSE CASE c = "\t" -> 9 [] c = "\n" -> 10 [] c = "\f" -> 12 [] c = "\r" -> 13
           [] OTHER -> 31 + (CHOOSE i \in 1..Len(AsciiTable) : SubSeq(AsciiTable, i, i) = c)

\* the bytes of the character with code point n in UTF-8; a surrogate has none, the
\* encoder raises UnicodeEncodeError (None)
utf8_bytes(n) ==
    IF n < 128 THEN Some(<<n>>)
    ELSE IF n < 2048 THEN Some(<<192 + (n \div 64), 128 + (n % 64)>>)
    ELSE IF 55296 <= n /\ n <= 57343 THEN None
    ELSE IF n < 65536
    THEN Some(<<224 + (n \div 4096), 128 + ((n \div 64) % 64), 128 + (n % 64)>>)
    ELSE Some(<<240 + (n \div 262144), 128 + ((n \div 4096) % 64), 128 + ((n \div 64) % 64),
                128 + (n % 64)>>)

\* the bytes of two parts of a text, one after the other, unless one of them raised
EncodeJoin(left, right) ==
    IF left = None \/ right = None THEN None ELSE Some(left[1] \o right[1])

\* the bytes of text[lo..hi], or None
RECURSIVE EncodeRange(_, _, _)
EncodeRange(text, lo, hi) ==
    IF lo > hi THEN Some(<< >>)
    ELSE IF lo = hi THEN utf8_bytes(ord(text[lo]))
    ELSE EncodeJoin(EncodeRange(text, lo, (lo + hi) \div 2),
                    EncodeRange(text, (lo + hi) \div 2 + 1, hi))

\* the bytes that a file opened with encoding='utf-8' receives for a text, or None
\* when f.write raises UnicodeEncodeError
encode_utf8(text) == EncodeRange(text, 1, Len(text))

\* what of the bytes of a content can be in a file when the writing of it has
\* failed: a proper beginning of them, which may end inside a character
partial(bytes) == {SubSeq(bytes, 1, n) : n \in 0..Max({0, Len(bytes) - 1})}

\* what a failed f.write leaves in the file that open() has created or emptied:
\* nothing when the text cannot be encoded, else a part of its bytes
failed_write(encoded) == IF encoded = None THEN {<< >>} ELSE partial(encoded[1])

\* the content of a file in which a failed to_csv has left a proper beginning,
\* possibly empty, of the CSV text of a frame; the text is not spelled out
truncated_csv(frame) == [truncated |-> frame]

write_file(files, path, content) ==
    [q \in (DOMAIN files) \cup {path} |-> IF q = path THEN content ELSE files[q]]

\* the for statement: the next name of the listing, names that do not end in
\* '.pdf' passed over; behind the last name the loop ends
Scan ==
    /\ stage = "scan"
    /\ IF idx = Len(listing)
       THEN /\ stage' = "aggregate"
            /\ UNCHANGED <<idx, cur, outcome, lookup>>
       ELSE LET filename == listing[idx + 1]
            IN  /\ idx' = idx + 1
                /\ lookup' = Append(lookup, "none")
                /\ IF endswith(filename, DOT_PDF)
                   THEN /\ stage' = "extract"
                        /\ outcome' = Append(outcome, "clean")
                        /\ cur' = [filename |-> filename,
                                   paper_id |-> splitext_root(filename)]
                   ELSE /\ stage' = "scan"
                        /\ outcome' = Append(outcome, "skipped")
                        /\ cur' = cur
    /\ UNCHANGED <<metadata, written, table, aborted, row_file, other_vars>>

\* except Exception: the rest of the body is left and the error is printed; then the
\* loop continues.  When print itself raises (standard output cannot encode the file
\* name or the message, or cannot be written to), the exception leaves process_pdfs.
Except(at) ==
    /\ outcome' = [outcome EXCEPT ![idx] = at]
    /\ cur' = NoLocals
    /\ \E printed \in BOOLEAN :
         IF printed
         THEN stage' = "scan" /\ aborted' = aborted
         ELSE stage' = "aborted" /\ aborted' = TRUE

Extract ==
    /\ stage = "extract"
    /\ \E raw \in RawTexts : cur' = cur @@ [raw_text |-> raw]
    /\ stage' = "isolate"
    /\ UNCHANGED <<idx, metadata, written, table, aborted, outcome, lookup, row_file, other_vars>>

ExtractRaises ==
    /\ stage = "extract"
    /\ Except("extract")
    /\ UNCHANGED <<idx, metadata, written, table, lookup, row_file, other_vars>>

Isolate ==
    /\ stage = "isolate"
    /\ LET r == preserve_equations(cur.raw_text)
       IN  cur' = cur @@ [processed_text |-> r.text, equations |-> r.equations]
    /\ stage' = "write_text"
    /\ UNCHANGED <<idx, metadata, written, table, aborted, outcome, lookup, row_file, other_vars>>

IsolateRaises ==
    /\ stage = "isolate"
    /\ Except("isolate")
    /\ UNCHANGED <<idx, metadata, written, table, lookup, row_file, other_vars>>

WriteText ==
    /\ stage = "write_text"
    /\ encode_utf8(cur.processed_text) # None
    /\ LET text_path == path_join(TEXT_DIR, cur.paper_id \o DOT_TXT)
       IN  /\ cur' = cur @@ [text_path |-> text_path]
           /\ written' = write_file(written, text_path, encode_utf8(cur.processed_text)[1])
    /\ stage' = "write_equations"
    /\ UNCHANGED <<idx, metadata, table, aborted, outcome, lookup, row_file, other_vars>>

\* open() raises and there is no new file, or the writing raises after open() has
\* created or emptied the file: the text cannot be encoded and the file is empty, or
\* a part of the bytes of the text, possibly none, has reached it
WriteTextRaises ==
    /\ stage = "write_text"
    /\ Except("write")
    /\ \/ written' = written
       \/ \E part \in failed_write(encode_utf8(cur.processed_text)) :
            written' = write_file(written, path_join(TEXT_DIR, cur.paper_id \o DOT_TXT), part)
    /\ UNCHANGED <<idx, metadata, table, lookup, row_file, other_vars>>

WriteEquations ==
    /\ stage = "write_equations"
    /\ LET eq_path == path_join(TEXT_DIR, cur.paper_id \o EQUATIONS_CSV)
       IN  /\ cur' = cur @@ [eq_path |-> eq_path]
           /\ written' = IF cur.equations # << >>
                         THEN write_file(written, eq_path, cur.equations)
                         ELSE written
    /\ stage' = "fetch"
    /\ UNCHANGED <<idx, metadata, table, aborted, outcome, lookup, row_file, other_vars>>

\* pd.DataFrame(equations) or the opening of the file raises and there is no new
\* file, or to_csv raises after it has created or emptied the file and a part of the
\* CSV text, possibly none, has reached it
WriteEquationsRaises ==
    /\ stage = "write_equations"
    /\ cur.equations # << >>
    /\ Except("write")
    /\ \/ written' = written
       \/ written' = write_file(written, path_join(TEXT_DIR, cur.paper_id \o EQUATIONS_CSV),
                               truncated_csv(cur.equations))
    /\ UNCHANGED <<idx, metadata, table, lookup, row_file, other_vars>>

\* arxiv_id = extract_arxiv_id(filename); meta = get_paper_metadata(arxiv_id) if arxiv_id else None
Fetch ==
    /\ stage = "fetch"
    /\ LET arxiv_id == extract_arxiv_id(cur.filename)
       IN  IF Truthy(arxiv_id)
           THEN \E response \in CatalogResponses :
                  LET r == get_paper_metadata(response)
                  IN  /\ lookup' = [lookup EXCEPT ![idx] = response.kind]
                      /\ IF r.raised
                         THEN Except("fetch")
                         ELSE /\ cur' = cur @@ [arxiv_id |-> arxiv_id, meta |-> r.value]
                              /\ stage' = "score"
                              /\ UNCHANGED <<outcome, aborted>>
           ELSE /\ lookup' = [lookup EXCEPT ![idx] = "no_id"]
                /\ cur' = cur @@ [arxiv_id |-> arxiv_id, meta |-> None]
                /\ stage' = "score"
                /\ UNCHANGED <<outcome, aborted>>
    /\ UNCHANGED <<idx, metadata, written, table, row_file, other_vars>>

Score ==
    /\ stage = "score"
    /\ cur' = cur @@ [metrics |-> calculate_readability(cur.processed_text)]
    /\ stage' = "record"
    /\ UNCHANGED <<idx, metadata, written, table, aborted, outcome, lookup, row_file, other_vars>>

\* the text statistics library raises
ScoreRaises ==
    /\ stage = "score"
    /\ Except("score")
    /\ UNCHANGED <<idx, metadata, written, table, lookup, row_file, other_vars>>

\* metadata.append({...}); datetime.now().year is what the clock shows now
Record ==
    /\ stage = "record"
    /\ ~ make_row_raises(cur)
    /\ metadata' = Append(metadata, make_row(cur, clock_year))
    /\ row_file' = Append(row_file, idx)
    /\ stage' = "scan"
    /\ cur' = NoLocals
    /\ UNCHANGED <<idx, written, table, aborted, outcome, lookup, other_vars>>

\* the building of the dictionary raises: nothing is appended
RecordRaises ==
    /\ stage = "record"
    /\ make_row_raises(cur)
    /\ Except("record")
    /\ UNCHANGED <<idx, metadata, written, table, lookup, row_file, other_vars>>

\* a new year begins while process_pdfs runs
Tick ==
    /\ stage \notin {"done", "aborted"}
    /\ clock_year + 1 \in CurrentYears
    /\ clock_year' = clock_year + 1
    /\ UNCHANGED <<eq_vars, id_vars, rd_vars, listing, idx, stage, cur, metadata, written,
                   table, aborted, outcome, lookup, row_file>>

\* df = pd.DataFrame(metadata); df.to_csv(METADATA_PATH, index=False)
Aggregate ==
    /\ stage = "aggregate"
    /\ table' = data_frame(metadata)
    /\ stage' = "done"
    /\ UNCHANGED <<idx, cur, metadata, written, aborted, outcome, lookup, row_file, other_vars>>

\* the table cannot be built or written: the exception leaves process_pdfs, with no
\* file at METADATA_PATH, or with the file created and a part of the CSV text,
\* possibly none, in it
AggregateRaises ==
    /\ stage = "aggregate"
    /\ aborted' = TRUE
    /\ stage' = "aborted"
    /\ \/ table' = table
       \/ table' = truncated_csv(data_frame(metadata))
    /\ UNCHANGED <<idx, cur, metadata, written, outcome, lookup, row_file, other_vars>>

Next ==
    \/ Scan
    \/ Extract \/ ExtractRaises
    \/ Isolate \/ IsolateRaises
    \/ WriteText \/ WriteTextRaises
    \/ WriteEquations \/ WriteEquationsRaises
    \/ Fetch
    \/ Score \/ ScoreRaises
    \/ Record \/ RecordRaises
    \/ Tick
    \/ Aggregate \/ AggregateRaises

Init == InitDriver

Spec == Init /\ [][Next]_vars

(***************************************************************************)
(* Properties of preserve_equations, checked under SpecEq                  *)
(***************************************************************************)
\* the placeholder tokens [EQ_<KIND>_<id>] that occur in text
PlaceholdersIn(text) ==
    LET ms == re_matches(text, [kind |-> "placeholder"])
    IN  {SubSeq(text, ms[k][1], ms[k][2]) : k \in 1..Len(ms)}

Occurs(text, lit) == Find(text, lit, 1) # 0

\* text without \begin{equation}, without \[ ... \] and without $
NoRawSyntax(text) ==
    /\ ~ Occurs(text, BEGIN_EQ)
    /\ ~ Occurs(text, DOLLAR)
    /\ ~ (Occurs(text, OPEN_BR) /\ Find(text, CLOSE_BR, Find(text, OPEN_BR, 1) + 2) # 0)

Untouched(text) == [text |-> text, equations |-> << >>]

\* n copies of a text
Copies(t, n) == Flatten([k \in 1..n |-> t])

\* C1: the placeholders in the returned text and the returned records correspond one
\* to one: each placeholder in the text has exactly one record, and the placeholder
\* of each record is in the text.  Stated for input texts that hold no placeholder
\* themselves.
C1_Bijection ==
    (eq_pc # "start" /\ PlaceholdersIn(eq_in) = {}) =>
        LET eqs == eq_out.equations
        IN  /\ \A tok \in PlaceholdersIn(eq_out.text) :
                 Cardinality({k \in 1..Len(eqs) : eqs[k].placeholder = tok}) = 1
            /\ \A k \in 1..Len(eqs) : Occurs(eq_out.text, eqs[k].placeholder)

ExampleOut ==
    <<"T", "h", "e", " ", "m", "o", "d", "e", "l", " ", "a", "c", "h", "i", "e", "v", "e", "s", " ", "[", "E", "Q", "_", "D", "I", "S", "P", "L", "A", "Y", "_", "1", "]", " ", "a", "c", "c", "u", "r", "a", "c", "y", " ", "o", "f", " ", "9", "5", "%", ".", " ", "I", "t", " ", "o", "u", "t", "p", "e", "r", "f", "o", "r", "m", "s", " ", "b", "a", "s", "e", "l", "i", "n", "e", "s", ".">>

\* C2 as stated: the example yields the text with [EQ_DISPLAY_1] and one record of
\* type DISPLAY with the equation x^2 + y^2 = z^2 and length 7.
C2_ExampleLengthSeven ==
    (eq_pc # "start" /\ eq_in = ExampleText) =>
        eq_out = [text |-> ExampleOut,
                  equations |-> << [placeholder |-> <<"[", "E", "Q", "_", "D", "I", "S", "P", "L", "A", "Y", "_", "1", "]">>,
                                    equation |-> <<"x", "^", "2", " ", "+", " ", "y", "^", "2", " ", "=", " ", "z", "^", "2">>,
                                    type |-> DISPLAY, length |-> 7] >>]

\* C2 amended: the same text and record, the length being 5, the number of
\* whitespace-separated tokens of the equation.
C2_ExampleLengthFive ==
    (eq_pc # "start" /\ eq_in = ExampleText) =>
        eq_out = [text |-> ExampleOut,
                  equations |-> << [placeholder |-> <<"[", "E", "Q", "_", "D", "I", "S", "P", "L", "A", "Y", "_", "1", "]">>,
                                    equation |-> <<"x", "^", "2", " ", "+", " ", "y", "^", "2", " ", "=", " ", "z", "^", "2">>,
                                    type |-> DISPLAY, length |-> 5] >>]

C2_Witness == eq_pc = "isolated" /\ eq_in = ExampleText /\ Len(eq_out.equations) = 1

\* C7 as stated: text without raw equation syntax comes back unchanged with an empty
\* list, and so does every text the isolator returned when it is isolated again.
C7_IdempotentOnOutput ==
    /\ (eq_pc # "start" /\ NoRawSyntax(eq_in)) => eq_out = Untouched(eq_in)
    /\ eq_pc = "again" => eq_again = Untouched(eq_out.text)

\* C7 amended: text without raw equation syntax comes back unchanged with an empty
\* list; a text the isolator returned comes back unchanged with an empty list when
\* it holds no raw equation syntax.
C7_IdempotentWithoutRawSyntax ==
    /\ (eq_pc # "start" /\ NoRawSyntax(eq_in)) => eq_out = Untouched(eq_in)
    /\ (eq_pc = "again" /\ NoRawSyntax(eq_out.text)) => eq_again = Untouched(eq_out.text)

C7_Witness ==
    /\ eq_pc = "again"
    /\ eq_out.equations # << >>
    /\ PlaceholdersIn(eq_out.text) # {}
    /\ NoRawSyntax(eq_out.text)
    /\ eq_again = Untouched(eq_out.text)

\* C9: only the first occurrence of the matched text is replaced, so n identical
\* equations come back as the n placeholders numbered 1 to n, in this order.
C9_IdenticalEquationsDistinct ==
    \A n \in 2..MaxChunks :
        (eq_pc # "start" /\ eq_in = Copies(<<"$", "x", "$">>, n)) =>
            eq_out.text = Flatten([k \in 1..n |-> make_placeholder(INLINE, k)])

(***************************************************************************)
(* Properties of extract_arxiv_id, checked under SpecId                    *)
(***************************************************************************)
\* the identifiers id such that filename is <anything> id [v digits] .pdf <tail>, id
\* being four digits, a dot and n digits for an n in minors, and tail in tails
IdsEnding(filename, minors, tails) ==
    {SubSeq(filename, s, s + 4 + n) :
        <<s, n>> \in {x \in (1..Len(filename)) \X minors :
            \E k \in 0..Len(filename), tail \in tails :
                LET p == x[1] + 5 + x[2]                       \* behind the identifier
                    q == IF k = 0 THEN p ELSE p + 1 + k        \* behind the version
                IN  /\ AllDigits(filename, x[1], 4)
                    /\ StartsWithAt(filename, <<".">>, x[1] + 4)
                    /\ AllDigits(filename, x[1] + 5, x[2])
                    /\ k > 0 => (StartsWithAt(filename, <<"v">>, p) /\ AllDigits(filename, p + 1, k))
                    /\ StartsWithAt(filename, DOT_PDF \o tail, q)
                    /\ q + 3 + Len(tail) = Len(filename)}}

\* C6 as stated: a filename that ends with NNNN.NNNNN, an optional version vN and
\* '.pdf' yields that identifier, every other filename yields None.
C6_FiveDigitsOnly ==
    id_pc = "done" =>
        LET ids == IdsEnding(id_in, {5}, {<< >>})
        IN  IF ids = {} THEN id_out = None ELSE id_out \in {Some(i) : i \in ids}

\* C6 amended: the identifier has four or five digits behind the dot, the version is
\* 'v' and one or more digits, and one newline may follow '.pdf'; such a filename
\* yields the identifier, every other filename yields None.
C6_FourOrFiveDigits ==
    id_pc = "done" =>
        LET ids == IdsEnding(id_in, {4, 5}, {<< >>, <<"\n">>})
        IN  IF ids = {} THEN id_out = None ELSE id_out \in {Some(i) : i \in ids}

C6_Witness ==
    /\ id_pc = "done"
    /\ id_out # None
    /\ Len(id_out[1]) = 9
    /\ Occurs(id_in, <<"v", "1", "2", ".", "p", "d", "f">>)

(***************************************************************************)
(* Properties of calculate_readability, checked under SpecRead             *)
(***************************************************************************)
\* the pieces the splitter makes of the text without its placeholders
Segments(text) == split_sentences(strip_placeholders(text))

\* the number of pieces with a length in the set lens
CountSegments(text, lens) ==
    Cardinality({k \in 1..Len(Segments(text)) : Len(Segments(text)[k]) \in lens})

\* C8: the average is word_count / sentence_count when there are sentences and 0
\* when there are none, no division by zero is made, and the empty text has no
\* words, no sentences and the average 0.
C8_AverageSentenceLength ==
    rd_pc = "done" =>
        LET avg == rd_out.avg_sentence_length
        IN  /\ avg.den # 0
            /\ rd_out.sentence_count > 0 =>
                 avg.num * rd_out.sentence_count = rd_out.word_count * avg.den
            /\ rd_out.sentence_count = 0 => avg.num = 0
            /\ rd_in = << >> => (rd_out.word_count = 0 /\ rd_out.sentence_count = 0)

C8_Witness ==
    /\ rd_pc = "done"
    /\ rd_out.sentence_count = 0
    /\ rd_out.word_count > 0
    /\ rd_out.avg_sentence_length.num = 0

\* C10 as stated: a piece is counted exactly when it has at least 10 and at most 500
\* characters.
C10_TenToFiveHundred ==
    rd_pc = "done" =>
        rd_out.sentence_count = CountSegments(rd_in, 10..500)

\* C10 amended: a piece is counted exactly when it has more than 10 and fewer than
\* 500 characters.
C10_ElevenTo499 ==
    rd_pc = "done" =>
        rd_out.sentence_count = CountSegments(rd_in, 11..499)

C10_Witness ==
    /\ rd_pc = "done"
    /\ CountSegments(rd_in, {500}) = 1
    /\ CountSegments(rd_in, {11}) = 1
    /\ rd_out.sentence_count = 1

(***************************************************************************)
(* Properties of process_pdfs, checked under Spec                          *)
(***************************************************************************)
IsPdf(i) == endswith(listing[i], DOT_PDF)

LookupFailed(i) == lookup[i] \in {"error", "empty"}

\* the loop is done with file i
Finished(i) == i < idx \/ (i = idx /\ stage \in {"scan", "aggregate", "done", "aborted"})

HasRow(i) == \E k \in 1..Len(row_file) : row_file[k] = i

\* the rows of the table are the rows of the files of the set F, in the order of the listing
TableHoldsExactly(F) ==
    /\ {row_file[k] : k \in 1..Len(row_file)} = F
    /\ Len(table.rows) = Cardinality(F)
    /\ \A k \in 1..Len(table.rows) :
         /\ table.rows[k].paper_id = splitext_root(listing[row_file[k]])
         /\ \A j \in 1..(k - 1) : row_file[j] < row_file[k]

CatalogColumns ==
    {"title", "authors", "published_date", "primary_category", "categories", "doi",
     "journal_ref"}

\* C3: whatever per-file stages raise, process_pdfs never aborts: it is not left
\* by an exception before the table is written, every file is visited before the
\* loop is left, and the table holds one row for each .pdf file none of whose
\* stages, the catalog lookup among them, failed, and no row for any other file.
C3_RowsOnlyWithoutAnyFailure ==
    /\ [][stage' = "aborted" => stage = "aggregate"]_vars
    /\ [](stage \in {"aggregate", "done"} => Len(outcome) = Len(listing))
    /\ [](stage = "done" =>
            TableHoldsExactly({i \in 1..Len(listing) :
                                 IsPdf(i) /\ outcome[i] = "clean" /\ ~ LookupFailed(i)}))

\* no file fails at the lookup, a file without catalog entry whose other stages are
\* through has a row, and such a row has the domain 'Unknown'
LookupFailureKeepsRow ==
    /\ \A i \in 1..Len(outcome) : outcome[i] # "fetch"
    /\ \A i \in 1..Len(outcome) :
         (Finished(i) /\ outcome[i] = "clean" /\ lookup[i] # "result") => HasRow(i)
    /\ \A k \in 1..Len(metadata) :
         lookup[row_file[k]] # "result" =>
            /\ metadata[k].domain = UNKNOWN
            /\ metadata[k].year \in CurrentYears
            /\ metadata[k].paper_id = splitext_root(listing[row_file[k]])

\* a row appended for a file without catalog entry has the year the clock shows at
\* that moment
DefaultYearIsCurrentYear ==
    (Len(metadata') = Len(metadata) + 1 /\ lookup[idx] # "result") =>
        metadata'[Len(metadata')].year = clock_year

\* C4: a lookup that raises or finds nothing, or a filename without identifier,
\* never makes the file fail: once its other stages are through, the file has a row
\* with the domain 'Unknown' and the year that is current when the row is appended.
C4_LookupFailureGivesDefaults ==
    /\ []LookupFailureKeepsRow
    /\ [][DefaultYearIsCurrentYear]_vars

\* two rows without catalog entry, appended in different years
C4_Witness ==
    \E j, k \in 1..Len(metadata) :
        /\ lookup[row_file[j]] = "error"
        /\ lookup[row_file[k]] \in {"empty", "no_id"}
        /\ metadata[j].domain = UNKNOWN /\ metadata[k].domain = UNKNOWN
        /\ metadata[j].year # metadata[k].year

\* C5 as stated: the table of a run that recorded rows, each after a lookup, has
\* the catalog columns, also when the lookup failed for every file.
C5_CatalogColumnsAlways ==
    (/\ stage = "done"
     /\ metadata # << >>
     /\ \A k \in 1..Len(row_file) : lookup[row_file[k]] # "no_id")
        => CatalogColumns \subseteq table.columns

\* C5 amended: the table has the catalog columns when the lookup succeeded for at
\* least one recorded file, with NaN in the rows whose lookup failed; when it
\* succeeded for none, the table has none of the catalog columns.
C5_CatalogColumnsIfOneLookupSucceeded ==
    stage = "done" =>
        IF \E k \in 1..Len(row_file) : lookup[row_file[k]] = "result"
        THEN /\ CatalogColumns \subseteq table.columns
             /\ \A k \in 1..Len(table.rows) :
                  lookup[row_file[k]] # "result" =>
                     \A col \in CatalogColumns : table.rows[k][col] = Null
        ELSE CatalogColumns \cap table.columns = {}

C5_Witness ==
    /\ stage = "done"
    /\ \E k \in 1..Len(row_file) : lookup[row_file[k]] = "result"
    /\ \E k \in 1..Len(row_file) :
         lookup[row_file[k]] = "error" /\ table.rows[k]["title"] = Null

=============================================================================
